---- MODULE Spec2Model ----
(***************************************************************************)
(* Kubeconfig sync of marcbachmann/lens: KubeconfigSyncManager, the        *)
(* per-file watcher / stream differ / computeDiff of                       *)
(* src/main/catalog-sources/kubeconfig-sync.source.ts, the watch-list of   *)
(* src/common/kubeconfig-sync-store.ts and the CatalogEntityRegistry of    *)
(* src/common/catalog-entity-registry.ts.                                  *)
(*                                                                         *)
(* Every handler of the code is one action.  The collaborators that are    *)
(* not part of the repository's sources (chokidar, fs streams, the yaml    *)
(* parser, validateKubeConfig, the Cluster constructor) are environment    *)
(* choices: which event fires, what the file holds when a read ends, which *)
(* contexts validate and for which names `new Cluster(model)` yields an    *)
(* apiUrl.                                                                 *)
(*                                                                         *)
(* The second part is the WebSocketApi of src/unnamed/part_000: its        *)
(* fields, the browser's WebSocket objects it creates, its timers and      *)
(* navigator.onLine.                                                       *)
(***************************************************************************)
EXTENDS Integers, Sequences, FiniteSets, TLC

VARIABLES
    files,        \* kubeconfigSyncStore.files, in insertion order
    syncing,      \* KubeconfigSyncManager.syncing
    listening,    \* the observers subscribed to files, and syncListDisposer
    sources,      \* KubeconfigSyncManager.sources: path -> unit (0: no entry)
    units,        \* every closure created by watchFileChanges, by creation
    reads,        \* every stream created by diffChangedConfig, by creation
    registry,     \* CatalogEntityRegistry.sources, in insertion order
    disconnects,  \* number of disconnect() calls received, per Cluster
    clusters,     \* number of Cluster objects that made it into a map
    lastOp        \* the handler that ran last: its inputs and its calls

VARIABLES
    socket,           \* WebSocketApi.socket: 0 (not set), or a WebSocket
    sockets,          \* readyState of every WebSocket created, by creation
    pendingCommands,  \* WebSocketApi.pendingCommands
    written,          \* the commands handed to socket.send, in order
    readyState,       \* WebSocketApi.readyState
    timers,           \* the timeouts that will call connect()
    online,           \* navigator.onLine
    params,           \* WebSocketApi.params
    sent              \* the calls of send(), destroy(), connect() by the users

api == <<socket, sockets, pendingCommands, written, readyState, timers,
         online, params, sent>>

sync == <<files, syncing, listening, sources, units, reads, registry,
          disconnects, clusters, lastOp>>

vars == <<sync, api>>

----------------------------------------------------------------------------
(* Bounds of the model *)

MaxUnits == 2

MaxReads == 2

MaxDiffReads == 3

MaxClusters == 3

MaxConfigs == 2

FewConfigs == 1

Paths == {"p1", "p2"}

Names == {"a", "b"}

ExtArrays == {<<"e1">>}

MaxSockets == 2

MaxSent == 3

MaxTimers == 1

----------------------------------------------------------------------------
(* Helpers on sequences *)

Range(s) == {s[i] : i \in 1..Len(s)}

RECURSIVE Flatten(_)
Flatten(ss) ==
    IF ss = <<>> THEN <<>> ELSE Head(ss) \o Flatten(Tail(ss))

RECURSIVE SetToSeq(_)
SetToSeq(S) ==
    IF S = {} THEN <<>>
    ELSE LET x == CHOOSE y \in S : TRUE IN <<x>> \o SetToSeq(S \ {x})

----------------------------------------------------------------------------
(* getSyncName *)

SyncName(file) == "lens:kube-sync:" \o file

----------------------------------------------------------------------------
(* CatalogEntityRegistry: sources is an insertion-ordered map id -> source. *)
(* A source is the derived (computed) view of a unit, or an array.         *)

ExtEntity(e) == [kind |-> "ext", cluster |-> 0, name |-> e, label |-> ""]

ArraySource(arr) ==
    [kind |-> "array", unit |-> 0, arr |-> [i \in 1..Len(arr) |-> ExtEntity(arr[i])]]

ComputedSource(u) == [kind |-> "computed", unit |-> u, arr |-> <<>>]

RegIds(reg) == {reg[i].id : i \in 1..Len(reg)}

\* the unit whose derived source is registered under id (0: none, or an array)
RegUnit(reg, id) ==
    IF \E i \in 1..Len(reg) : reg[i].id = id
    THEN reg[CHOOSE i \in 1..Len(reg) : reg[i].id = id].src.unit
    ELSE 0

\* ObservableMap.set: an existing key keeps its place, a new key goes last
MapSet(reg, id, src) ==
    IF id \in RegIds(reg)
    THEN [i \in 1..Len(reg) |->
            IF reg[i].id = id THEN [id |-> id, src |-> src] ELSE reg[i]]
    ELSE Append(reg, [id |-> id, src |-> src])

addSource(reg, id, arr) == MapSet(reg, id, ArraySource(arr))

addComputedSource(reg, id, u) == MapSet(reg, id, ComputedSource(u))

\* a removeSource that deletes nothing
removeSourceKeep(reg, id) == reg

\* removeSource: sources.delete(id)
removeSource(reg, id) == SelectSeq(reg, LAMBDA s : s.id # id)

\* catalogEntityFromCluster + the KUBECONFIG_SYNC label
Entity(filePath, rec) ==
    [kind |-> "cluster", cluster |-> rec.cluster, name |-> rec.name,
     label |-> filePath]

\* derivedSource of watchFileChanges: Array.from(source.values(), v => v[1])
derivedSource(unit) ==
    [i \in 1..Len(unit.source) |-> Entity(unit.path, unit.source[i])]

\* an aggregate that keeps one copy of equal entities
itemsDistinct(reg, us) ==
    LET all == Flatten([i \in 1..Len(reg) |->
                   IF reg[i].src.kind = "computed"
                   THEN derivedSource(us[reg[i].src.unit])
                   ELSE reg[i].src.arr])
    IN  SelectSeq([i \in 1..Len(all) |->
                      IF \E j \in 1..(i - 1) : all[j] = all[i]
                      THEN [kind |-> "dup"] ELSE all[i]],
                  LAMBDA e : e.kind # "dup")

\* CatalogEntityRegistry.items over a registry and the units it refers to
items(reg, us) ==
    Flatten([i \in 1..Len(reg) |->
        IF reg[i].src.kind = "computed"
        THEN derivedSource(us[reg[i].src.unit])
        ELSE reg[i].src.arr])

----------------------------------------------------------------------------
(* The parsed file: splitConfig(loadConfigFromString(buf)) throws, or      *)
(* gives one config per context; validateKubeConfig accepts it or throws.  *)

Configs == [contextName : Names, valid : BOOLEAN]

RECURSIVE SeqsUpTo(_, _)
SeqsUpTo(S, n) ==
    IF n = 0 THEN {<<>>}
    ELSE LET shorter == SeqsUpTo(S, n - 1)
         IN  shorter \cup {Append(s, x) : s \in {t \in shorter : Len(t) = n - 1}, x \in S}

Malformed == [malformed |-> TRUE, configs |-> <<>>]

BuffersUpTo(n) ==
    {Malformed} \cup
    {[malformed |-> FALSE, configs |-> cs] : cs \in SeqsUpTo(Configs, n)}

\* the contents drawn by the specifications below
FewBuffers == BuffersUpTo(FewConfigs)

DiffBuffers == BuffersUpTo(MaxConfigs)

\* configsToModels: the contexts that validate, in file order
configsToModels(configs) ==
    LET validConfigs == SelectSeq(configs, LAMBDA c : c.valid)
    IN  [i \in 1..Len(validConfigs) |-> validConfigs[i].contextName]

\* new Map(rawModels.map(m => [m.contextName, m])): keys in first-insertion order
RECURSIVE MapKeys(_, _)
MapKeys(rawModels, seen) ==
    IF rawModels = <<>> THEN <<>>
    ELSE IF Head(rawModels) \in seen THEN MapKeys(Tail(rawModels), seen)
    ELSE <<Head(rawModels)>> \o MapKeys(Tail(rawModels), seen \cup {Head(rawModels)})

----------------------------------------------------------------------------
(* computeDiff, as the sequence of calls it makes on the map and on the    *)
(* Cluster objects, and the effect of these calls.                         *)

Call(c, name, cluster) == [call |-> c, name |-> name, cluster |-> cluster]

\* a removal that forgets disconnect()
RemoveOldNoDisconnect(e) == <<Call("delete", e.name, e.cluster)>>

\* lines 124-129: a record whose context left the file
RemoveOld(e) ==
    <<Call("disconnect", e.name, e.cluster), Call("delete", e.name, e.cluster)>>

\* an update that never reaches the Cluster
UpdateOldSkip(e) == <<>>

\* an update that replaces the Cluster instead of updating it
UpdateOldRebuild(e) ==
    <<Call("disconnect", e.name, e.cluster), Call("construct", e.name, e.cluster),
      Call("set", e.name, e.cluster)>>

\* lines 136-138: a record whose context is still in the file
UpdateOld(e) == <<Call("updateModel", e.name, e.cluster)>>

\* an insertion that does not look at apiUrl
AddNewAlways(contextName, hasApiUrl, id) ==
    <<Call("construct", contextName, id), Call("set", contextName, id)>>

\* lines 143-158: a context that has no record yet
AddNew(contextName, hasApiUrl, id) ==
    IF hasApiUrl
    THEN <<Call("construct", contextName, id), Call("set", contextName, id)>>
    ELSE <<Call("construct", contextName, 0)>>

\* lines 120-139: the loop over the map
RECURSIVE DiffExisting(_, _)
DiffExisting(source, models) ==
    IF source = <<>> THEN <<>>
    ELSE (IF Head(source).name \notin models
          THEN RemoveOld(Head(source))
          ELSE UpdateOld(Head(source)))
         \o DiffExisting(Tail(source), models)

\* lines 141-159: the loop over the models that are left
RECURSIVE DiffNew(_, _, _)
DiffNew(names, ok, next) ==
    IF names = <<>> THEN <<>>
    ELSE AddNew(Head(names), Head(names) \in ok, next)
         \o DiffNew(Tail(names), ok, IF Head(names) \in ok THEN next + 1 ELSE next)

\* line 162: the catch of the whole pass
OnParseError(source) == <<Call("clear", "", 0)>>

\* computeDiff(buf, source, port, filePath); ok: the names for which
\* new Cluster(model) has an apiUrl; next: the identity of the next Cluster
computeDiff(buf, source, ok, next) ==
    IF buf.malformed THEN OnParseError(source)
    ELSE LET models == MapKeys(configsToModels(buf.configs), {})
             old    == {source[i].name : i \in 1..Len(source)}
             left   == SelectSeq(models, LAMBDA n : n \notin old)
         IN  DiffExisting(source, Range(models)) \o DiffNew(left, ok, next)

\* the map after one call
ApplyCall(source, c) ==
    CASE c.call = "delete" -> SelectSeq(source, LAMBDA e : e.name # c.name)
      [] c.call = "clear"  -> <<>>
      [] c.call = "set"    ->
            IF \E i \in 1..Len(source) : source[i].name = c.name
            THEN [i \in 1..Len(source) |->
                    IF source[i].name = c.name
                    THEN [name |-> c.name, cluster |-> c.cluster] ELSE source[i]]
            ELSE Append(source, [name |-> c.name, cluster |-> c.cluster])
      [] OTHER -> source

RECURSIVE ApplyCalls(_, _)
ApplyCalls(source, calls) ==
    IF calls = <<>> THEN source
    ELSE ApplyCalls(ApplyCall(source, Head(calls)), Tail(calls))

CountCalls(calls, c, cluster) ==
    Cardinality({i \in 1..Len(calls) : calls[i].call = c /\ calls[i].cluster = cluster})

Constructed(calls) ==
    Cardinality({i \in 1..Len(calls) : calls[i].call = "set"})

\* the maps an observable map goes through under the calls, one per change
RECURSIVE Changes(_, _)
Changes(source, calls) ==
    IF calls = <<>> THEN <<>>
    ELSE LET next == ApplyCall(source, Head(calls))
         IN  (IF next # source THEN <<next>> ELSE <<>>) \o Changes(next, Tail(calls))

\* a pass outside an action: the observers run after every change
runUnbatched(changes) == changes

\* line 114, runInAction: the observers of the map run when the action ends,
\* once, on the map as it is then; changes: the maps the action went through
runInAction(changes) ==
    IF changes = <<>> THEN <<>> ELSE <<changes[Len(changes)]>>

----------------------------------------------------------------------------
(* watchFileChanges and diffChangedConfig *)

NoBuffer == [malformed |-> FALSE, configs |-> <<>>]

\* the closure of watchFileChanges: source (the observable map, in insertion
\* order), stopPrevious (0: undefined, else the read whose canceller it is).
\* exists: what the chokidar watcher last reported about the file.
\* synced, lastBuf: whether a pass ran on the map and what the last one read.
watchFileChanges(filePath) ==
    [path |-> filePath, source |-> <<>>, stopPrevious |-> 0, exists |-> FALSE,
     synced |-> FALSE, lastBuf |-> NoBuffer]

\* the closure of diffChangedConfig: closed, and whether "end" was emitted.
\* orphaned: the unit was dropped by the manager while the read was in flight.
diffChangedConfig(u) ==
    [unit |-> u, closed |-> FALSE, state |-> "reading", orphaned |-> FALSE]

\* a stream that emitted "close": nothing of it is left
Gone == [unit |-> 0, closed |-> TRUE, state |-> "gone", orphaned |-> FALSE]

\* a Disposer that does nothing
CancelNothing(rs, r) == rs

\* the Disposer returned by diffChangedConfig (lines 185-195)
Cancel(rs, r) ==
    IF r = 0 \/ rs[r].state = "gone" THEN rs
    ELSE [rs EXCEPT ![r].closed = TRUE]

\* an "end" handler that drops every buffer
ShouldDiffNever(rd) == FALSE

\* an "end" handler that does not look at closed
ShouldDiffAlways(rd) == TRUE

\* line 180: the "end" handler hands the buffer to computeDiff
ShouldDiff(rd) == ~rd.closed

----------------------------------------------------------------------------
(* KubeconfigSyncManager.startNewSync / stopOldSync on the part of the     *)
(* state they touch: m = [sources, units, registry].                       *)

startNewSync(m, filePath) ==
    IF m.sources[filePath] # 0 THEN m
    ELSE LET u == Len(m.units) + 1
         IN  [sources  |-> [m.sources EXCEPT ![filePath] = u],
              units    |-> Append(m.units, watchFileChanges(filePath)),
              registry |-> addComputedSource(m.registry, SyncName(filePath), u)]

\* a stopOldSync that leaves the source registered
stopOldSyncKeepSource(m, filePath) ==
    IF m.sources[filePath] = 0 THEN m
    ELSE [m EXCEPT !.sources[filePath] = 0]

stopOldSync(m, filePath) ==
    IF m.sources[filePath] = 0 THEN m
    ELSE [m EXCEPT !.sources[filePath] = 0,
                   !.registry = removeSource(@, SyncName(filePath))]

RECURSIVE StartAll(_, _)
StartAll(m, fs) ==
    IF fs = <<>> THEN m ELSE StartAll(startNewSync(m, Head(fs)), Tail(fs))

RECURSIVE StopAll(_, _)
StopAll(m, fs) ==
    IF fs = <<>> THEN m ELSE StopAll(stopOldSync(m, Head(fs)), Tail(fs))

Manager == [sources |-> sources, units |-> units, registry |-> registry]

\* listening: observers, the number of observers startSync subscribed to files
\* that are still subscribed; disposer, whether syncListDisposer is set and
\* the subscription it disposes of is still there
NotListening == [observers |-> 0, disposer |-> FALSE]

\* a startSync that does not look at syncing
AlreadySyncingNever(flag) == FALSE

\* line 29: if (this.syncing) return
AlreadySyncing(flag) == flag

\* lines 41-50: files.observe(..), its Disposer kept in syncListDisposer
Subscribe(l) == [observers |-> l.observers + 1, disposer |-> TRUE]

\* a stopSync that leaves the observer subscribed
DisposeNothing(l) == l

\* line 55: this.syncListDisposer?.()
Dispose(l) ==
    IF l.disposer THEN [observers |-> l.observers - 1, disposer |-> FALSE] ELSE l

\* an observer that ignores the changes of files
OnChangeIgnore(m, n, type, filePath) == m

\* lines 42-49: every subscribed observer handles the change of files
RECURSIVE OnChange(_, _, _, _)
OnChange(m, n, type, filePath) ==
    IF n = 0 THEN m
    ELSE OnChange(IF type = "add" THEN startNewSync(m, filePath)
                                  ELSE stopOldSync(m, filePath),
                  n - 1, type, filePath)

ActiveUnits(srcs) == {srcs[p] : p \in Paths} \ {0}

IsActive(u) == sources[units[u].path] = u

\* the reads of the dropped units that are still in flight
Orphan(rs, dropped) ==
    [r \in 1..Len(rs) |->
        IF rs[r].unit \in dropped /\ rs[r].state = "reading"
        THEN [rs[r] EXCEPT !.orphaned = TRUE] ELSE rs[r]]

----------------------------------------------------------------------------
(* WebSocketApi (src/unnamed/part_000), on the record w of its fields, the  *)
(* WebSocket objects and the timers.  A command is the number of the send() *)
(* call that passed it; a WebSocket is "connecting", "open", "closing" or   *)
(* "closed" (its close event was delivered).                                *)

\* pingMessage
PingMessage == 0

\* defaultParams (lines 60-66): flushOnOpen, reconnectDelaySeconds
DefaultParams == [flushOnOpen |-> TRUE, reconnectDelaySeconds |-> 10]

Api ==
    [socket |-> socket, sockets |-> sockets, pendingCommands |-> pendingCommands,
     written |-> written, readyState |-> readyState, timers |-> timers,
     params |-> params]

\* lines 82-86; onLine: navigator.onLine (isOnline, lines 88-90)
isConnected(w, onLine) ==
    w.socket # 0 /\ w.sockets[w.socket] = "open" /\ onLine

\* lines 139-151
send(w, onLine, command) ==
    IF isConnected(w, onLine)
    THEN [w EXCEPT !.written = Append(@, command)]
    ELSE [w EXCEPT !.pendingCommands = Append(@, command)]

\* line 154: pendingCommands.forEach(msg => this.send(msg.data)), over the
\* messages that were queued when forEach started
RECURSIVE forEachSend(_, _, _)
forEachSend(w, onLine, msgs) ==
    IF msgs = <<>> THEN w
    ELSE forEachSend(send(w, onLine, Head(msgs)), onLine, Tail(msgs))

\* lines 153-156: line 155 empties the queue, whatever line 154 pushed on it
flush(w, onLine) ==
    [forEachSend(w, onLine, w.pendingCommands) EXCEPT !.pendingCommands = <<>>]

\* WebSocket.close() of socket s: its close event comes later
close(ss, s) ==
    IF s # 0 /\ ss[s] \in {"connecting", "open"} THEN [ss EXCEPT ![s] = "closing"]
    ELSE ss

\* lines 96-106
connect(w) ==
    [w EXCEPT !.sockets = Append(close(w.sockets, w.socket), "connecting"),
              !.socket = Len(w.sockets) + 1,
              !.readyState = "connecting"]

\* lines 113-120; timers.reconnect: the timeout of reconnectTimer is pending,
\* timers.lost: the pending timeouts whose handle is not kept
reconnect(w) ==
    IF w.params.reconnectDelaySeconds = 0 THEN w
    ELSE [w EXCEPT !.timers = [reconnect |-> TRUE,
                               lost |-> @.lost + (IF @.reconnect THEN 1 ELSE 0)],
                   !.readyState = "reconnecting"]

\* lines 122-131
destroy(w) ==
    IF w.socket = 0 THEN w
    ELSE [w EXCEPT !.sockets = close(@, w.socket),
                   !.socket = 0,
                   !.pendingCommands = <<>>,
                   !.timers = [@ EXCEPT !.reconnect = FALSE],
                   !.readyState = "pending"]

\* lines 162-167
onOpen(w, onLine) ==
    [(IF w.params.flushOnOpen THEN flush(w, onLine) ELSE w)
        EXCEPT !.readyState = "open"]

\* lines 180-191; error: evt.code !== 1000 || !evt.wasClean
onClose(w, error) ==
    IF error THEN reconnect(w) ELSE [w EXCEPT !.readyState = "closed"]

\* sent: count, the number of send() calls of the users; destroyed, its value
\* at the last destroy(); afterDestroy, a destroy() closed the socket and no
\* user has called connect() since.
\* After the constructor (lines 68-80) with the default parameters: the
\* timeout of autoConnect is pending, no ping interval
InitApi ==
    /\ socket = 0
    /\ sockets = <<>>
    /\ pendingCommands = <<>>
    /\ written = <<>>
    /\ readyState = "pending"
    /\ timers = [reconnect |-> FALSE, lost |-> 1]
    /\ online = TRUE
    /\ params = DefaultParams
    /\ sent = [count |-> 0, destroyed |-> 0, afterDestroy |-> FALSE]

----------------------------------------------------------------------------
(* The handler that ran last *)

\* op: "end" (a read ended), "event" (a watcher event), "drop" (the manager
\* dropped units), "add" / "remove" (addSource / removeSource), "start"
\* (startSync), "watch" (addSyncingFile), "" otherwise
\* notified: the maps the observers of the unit's map were run on
NoOp ==
    [op |-> "", unit |-> 0, read |-> 0, kind |-> "", id |-> "",
     buf |-> NoBuffer, ok |-> {}, before |-> <<>>, calls |-> <<>>,
     passed |-> FALSE,
     cancelled |-> FALSE, orphaned |-> FALSE, dropped |-> {},
     repeat |-> FALSE, itemsBefore |-> <<>>, hadId |-> FALSE, afterAdd |-> FALSE,
     notified |-> <<>>, afterMalformed |-> FALSE]

Dropped(us) == IF us = {} THEN NoOp ELSE [NoOp EXCEPT !.op = "drop", !.dropped = us]

Init ==
    /\ files \in {<<>>, <<"p1">>}
    /\ syncing = FALSE
    /\ listening = NotListening
    /\ sources = [p \in Paths |-> 0]
    /\ units = <<>>
    /\ reads = <<>>
    /\ registry = <<>>
    /\ disconnects = <<>>
    /\ clusters = 0
    /\ lastOp = NoOp
    /\ InitApi

----------------------------------------------------------------------------
(* KubeconfigSyncManager *)

StartSync ==
    /\ Len(units) + Cardinality({p \in Range(files) : sources[p] = 0}) <= MaxUnits
    /\ IF AlreadySyncing(syncing)
       THEN UNCHANGED <<sources, units, registry, syncing, listening>>
       ELSE LET m == StartAll(Manager, files)
            IN  /\ sources' = m.sources
                /\ units' = m.units
                /\ registry' = m.registry
                /\ syncing' = TRUE
                /\ listening' = Subscribe(listening)
    /\ lastOp' = [NoOp EXCEPT !.op = "start", !.repeat = syncing]
    /\ UNCHANGED <<files, reads, disconnects, clusters>>
    /\ UNCHANGED api

StopSync ==
    LET keys == SetToSeq({p \in Paths : sources[p] # 0})
        m    == StopAll(Manager, keys)
    IN  /\ listening' = Dispose(listening)
        /\ sources' = m.sources
        /\ units' = m.units
        /\ registry' = m.registry
        /\ syncing' = FALSE
        /\ reads' = Orphan(reads, ActiveUnits(sources))
        /\ lastOp' = Dropped(ActiveUnits(sources))
        /\ UNCHANGED <<files, disconnects, clusters>>
        /\ UNCHANGED api

----------------------------------------------------------------------------
(* KubeconfigSyncStore and the observer startSync installs on files *)

AddSyncingFile(file) ==
    /\ IF file \in Range(files)
       THEN UNCHANGED <<files, sources, units, registry>>
       ELSE /\ files' = Append(files, file)
            /\ listening.observers = 0 \/ sources[file] # 0 \/ Len(units) < MaxUnits
            /\ LET m == OnChange(Manager, listening.observers, "add", file)
               IN  /\ sources' = m.sources
                   /\ units' = m.units
                   /\ registry' = m.registry
    /\ lastOp' = [NoOp EXCEPT !.op = "watch", !.repeat = file \in Range(files)]
    /\ UNCHANGED <<syncing, listening, reads, disconnects, clusters>>
    /\ UNCHANGED api

RemoveSyncingFile(file) ==
    /\ IF file \notin Range(files)
       THEN /\ UNCHANGED <<files, sources, units, registry, reads>>
            /\ lastOp' = NoOp
       ELSE /\ files' = SelectSeq(files, LAMBDA f : f # file)
            /\ LET m == OnChange(Manager, listening.observers, "delete", file)
                   dropped == IF listening.observers = 0 THEN {}
                              ELSE {sources[file]} \ {0}
               IN  /\ sources' = m.sources
                   /\ units' = m.units
                   /\ registry' = m.registry
                   /\ reads' = Orphan(reads, dropped)
                   /\ lastOp' = Dropped(dropped)
    /\ UNCHANGED <<syncing, listening, disconnects, clusters>>
    /\ UNCHANGED api

----------------------------------------------------------------------------
(* CatalogEntityRegistry, called by the rest of the application *)

AddSource(id, arr) ==
    /\ registry' = addSource(registry, id, arr)
    /\ lastOp' = [NoOp EXCEPT !.op = "add", !.id = id,
                              !.itemsBefore = items(registry, units),
                              !.hadId = id \in RegIds(registry)]
    /\ UNCHANGED <<files, syncing, listening, sources, units, reads,
                   disconnects, clusters>>
    /\ UNCHANGED api

RemoveSource(id) ==
    /\ registry' = removeSource(registry, id)
    /\ lastOp' = IF lastOp.op = "add" /\ lastOp.id = id
                  THEN [lastOp EXCEPT !.op = "remove", !.afterAdd = TRUE]
                  ELSE [NoOp EXCEPT !.op = "remove", !.id = id,
                                    !.unit = RegUnit(registry, id)]
    /\ UNCHANGED <<files, syncing, listening, sources, units, reads,
                   disconnects, clusters>>
    /\ UNCHANGED api

----------------------------------------------------------------------------
(* The chokidar watcher of a unit (lines 209-220).  Nothing in the code    *)
(* closes a watcher, so every unit ever created keeps receiving events.    *)

FsEvent(u, kind, maxReads) ==
    /\ u \in 1..Len(units)
    /\ CASE kind = "add"    -> ~units[u].exists
         [] kind = "change" -> units[u].exists
         [] kind = "unlink" -> units[u].exists
    /\ IF kind = "unlink"
       THEN /\ reads' = Cancel(reads, units[u].stopPrevious)
            /\ units' = [units EXCEPT ![u].exists = FALSE]
            /\ lastOp' = [NoOp EXCEPT !.op = "event", !.kind = kind, !.unit = u]
       ELSE /\ Len(reads) < maxReads
            /\ reads' = Append(Cancel(reads, units[u].stopPrevious),
                               diffChangedConfig(u))
            /\ units' = [units EXCEPT ![u].exists = TRUE,
                                      ![u].stopPrevious = Len(reads) + 1]
            /\ lastOp' = [NoOp EXCEPT !.op = "event", !.kind = kind, !.unit = u]
    /\ UNCHANGED <<files, syncing, listening, sources, registry, disconnects,
                   clusters>>
    /\ UNCHANGED api

----------------------------------------------------------------------------
(* The read stream of diffChangedConfig (lines 176-183) *)

\* "end": the whole file was read, or the canceller pushed null.
\* bufs: what the file may hold; keep: whether lastBuf remembers it.
ReadEnd(r, bufs, keep) ==
    /\ r \in 1..Len(reads)
    /\ reads[r].state = "reading"
    /\ reads' = [reads EXCEPT ![r].state = "ended"]
    /\ LET u == reads[r].unit IN
       IF ShouldDiff(reads[r])
       THEN \E buf \in bufs, ok \in SUBSET Names :
              LET calls == computeDiff(buf, units[u].source, ok, clusters + 1)
                  made  == Constructed(calls)
              IN  /\ clusters + made <= MaxClusters
                  /\ units' = [units EXCEPT
                                 ![u].source = ApplyCalls(units[u].source, calls),
                                 ![u].synced = TRUE,
                                 ![u].lastBuf = IF keep THEN buf ELSE NoBuffer]
                  /\ clusters' = clusters + made
                  /\ disconnects' =
                        [c \in 1..(clusters + made) |->
                            (IF c <= clusters THEN disconnects[c] ELSE 0)
                            + CountCalls(calls, "disconnect", c)]
                  /\ lastOp' = [NoOp EXCEPT
                                 !.op = "end", !.unit = u, !.read = r,
                                 !.buf = buf, !.ok = ok,
                                 !.before = units[u].source,
                                 !.calls = calls, !.passed = TRUE,
                                 !.notified =
                                    runInAction(Changes(units[u].source, calls)),
                                 !.cancelled = reads[r].closed,
                                 !.orphaned = reads[r].orphaned,
                                 !.repeat = keep /\ units[u].synced
                                            /\ units[u].lastBuf = buf,
                                 !.afterMalformed =
                                    keep /\ units[u].synced
                                         /\ units[u].lastBuf.malformed]
       ELSE /\ UNCHANGED <<units, clusters, disconnects>>
            /\ lastOp' = [NoOp EXCEPT
                           !.op = "end", !.unit = u, !.read = r,
                           !.before = units[u].source,
                           !.cancelled = reads[r].closed,
                           !.orphaned = reads[r].orphaned]
    /\ UNCHANGED <<files, syncing, listening, sources, registry>>
    /\ UNCHANGED api

\* "close": after "end" (autoClose), or after the canceller closed the stream
ReadClose(r) ==
    /\ r \in 1..Len(reads)
    /\ \/ reads[r].state = "ended"
       \/ reads[r].state = "reading" /\ reads[r].closed
    /\ reads' = [reads EXCEPT ![r] = Gone]
    /\ lastOp' = NoOp
    /\ UNCHANGED <<files, syncing, listening, sources, units, registry,
                   disconnects, clusters>>
    /\ UNCHANGED api

----------------------------------------------------------------------------
(* WebSocketApi: the calls of its users, the events of its sockets, timers  *)

SetApi(w) ==
    /\ socket' = w.socket
    /\ sockets' = w.sockets
    /\ pendingCommands' = w.pendingCommands
    /\ written' = w.written
    /\ readyState' = w.readyState
    /\ timers' = w.timers
    /\ params' = w.params

\* connect() called by a user
Connect ==
    /\ Len(sockets) < MaxSockets
    /\ SetApi(connect(Api))
    /\ sent' = [sent EXCEPT !.afterDestroy = FALSE]
    /\ UNCHANGED <<online, sync>>

\* a timeout set by the constructor (line 74) or by reconnect (line 118) fires
TimerFires(kept) ==
    /\ Len(sockets) < MaxSockets
    /\ IF kept THEN timers.reconnect ELSE timers.lost > 0
    /\ SetApi(connect([Api EXCEPT !.timers =
                          IF kept THEN [@ EXCEPT !.reconnect = FALSE]
                                  ELSE [@ EXCEPT !.lost = @ - 1]]))
    /\ UNCHANGED <<online, sent, sync>>

\* send(command) called by a user
Send ==
    /\ sent.count < MaxSent
    /\ SetApi(send(Api, online, sent.count + 1))
    /\ sent' = [sent EXCEPT !.count = @ + 1]
    /\ UNCHANGED <<online, sync>>

\* ping() (lines 108-111)
Ping ==
    /\ Len(written) < MaxSent
    /\ isConnected(Api, online)
    /\ SetApi(send(Api, online, PingMessage))
    /\ UNCHANGED <<online, sent, sync>>

\* destroy() called by a user
Destroy ==
    /\ SetApi(destroy(Api))
    /\ sent' = IF socket = 0 THEN sent
               ELSE [sent EXCEPT !.destroyed = sent.count, !.afterDestroy = TRUE]
    /\ UNCHANGED <<online, sync>>

\* setParams (lines 92-94)
SetParams(flushOnOpen, reconnectDelaySeconds) ==
    /\ params' = [flushOnOpen |-> flushOnOpen,
                  reconnectDelaySeconds |-> reconnectDelaySeconds]
    /\ UNCHANGED <<socket, sockets, pendingCommands, written, readyState,
                   timers, online, sent, sync>>

\* the open event of socket s
SocketOpen(s) ==
    /\ s \in 1..Len(sockets)
    /\ sockets[s] = "connecting"
    /\ SetApi(onOpen([Api EXCEPT !.sockets[s] = "open"], online))
    /\ UNCHANGED <<online, sent, sync>>

\* the close event of socket s: the connection failed or was lost, the server
\* closed it, or close() was called on it
SocketClose(s, error) ==
    /\ s \in 1..Len(sockets)
    /\ sockets[s] # "closed"
    /\ error /\ params.reconnectDelaySeconds # 0 /\ timers.reconnect
          => timers.lost < MaxTimers
    /\ SetApi(onClose([Api EXCEPT !.sockets[s] = "closed"], error))
    /\ UNCHANGED <<online, sent, sync>>

\* navigator.onLine changes
OnLine(flag) ==
    /\ online # flag
    /\ online' = flag
    /\ UNCHANGED <<socket, sockets, pendingCommands, written, readyState,
                   timers, params, sent, sync>>

----------------------------------------------------------------------------

Kinds == {"add", "change", "unlink"}

\* The whole system: the watch-list changes, the files of both paths are
\* written and removed, the reads overlap; files hold few contexts.
Next ==
    \/ StartSync
    \/ StopSync
    \/ \E file \in Paths : AddSyncingFile(file)
    \/ \E file \in Paths : RemoveSyncingFile(file)
    \/ \E u \in 1..MaxUnits, kind \in Kinds : FsEvent(u, kind, MaxReads)
    \/ \E r \in 1..MaxReads : ReadEnd(r, FewBuffers, FALSE)
    \/ \E r \in 1..MaxReads : ReadClose(r)

Spec == Init /\ [][Next]_vars

\* One synced file, rewritten with every content of up to MaxConfigs contexts.
NextDiff ==
    \/ StartSync
    \/ \E u \in 1..MaxUnits, kind \in Kinds : FsEvent(u, kind, MaxDiffReads)
    \/ \E r \in 1..MaxDiffReads : ReadEnd(r, DiffBuffers, TRUE)
    \/ \E r \in 1..MaxDiffReads : ReadClose(r)

SpecDiff == Init /\ [][NextDiff]_vars


\* The whole system with the other callers of the registry; every file is
\* written once, malformed or with one valid context.
CallerIds == {"other", SyncName("p1")}

OneContext ==
    {Malformed,
     [malformed |-> FALSE, configs |-> <<[contextName |-> "a", valid |-> TRUE]>>]}

NextRegistry ==
    \/ StartSync
    \/ StopSync
    \/ \E file \in Paths : AddSyncingFile(file)
    \/ \E file \in Paths : RemoveSyncingFile(file)
    \/ \E id \in CallerIds, arr \in ExtArrays : AddSource(id, arr)
    \/ \E id \in CallerIds : RemoveSource(id)
    \/ \E u \in 1..MaxUnits : FsEvent(u, "add", MaxReads)
    \/ \E r \in 1..MaxReads : ReadEnd(r, OneContext, FALSE)
    \/ \E r \in 1..MaxReads : ReadClose(r)

SpecRegistry == Init /\ [][NextRegistry]_vars

\* One path that enters and leaves the watch-list, its file malformed or
\* with one valid context, and a read that can end does end: the stream of
\* lines 169-183 emits "end" when the file is read, or when the canceller
\* pushed null.
NextLive ==
    \/ StartSync
    \/ StopSync
    \/ AddSyncingFile("p1")
    \/ RemoveSyncingFile("p1")
    \/ \E u \in 1..MaxUnits, kind \in Kinds : FsEvent(u, kind, MaxReads)
    \/ \E r \in 1..MaxReads : ReadEnd(r, OneContext, TRUE)
    \/ \E r \in 1..MaxReads : ReadClose(r)

SpecLive ==
    /\ Init
    /\ [][NextLive]_vars
    /\ \A r \in 1..MaxReads : WF_vars(ReadEnd(r, OneContext, TRUE))

\* WebSocketApi alone
Delays == {0, 10}

NextSocket ==
    \/ Connect
    \/ \E kept \in BOOLEAN : TimerFires(kept)
    \/ Send
    \/ Ping
    \/ Destroy
    \/ \E flushOnOpen \in BOOLEAN, delay \in Delays : SetParams(flushOnOpen, delay)
    \/ \E s \in 1..MaxSockets : SocketOpen(s)
    \/ \E s \in 1..MaxSockets, error \in BOOLEAN : SocketClose(s, error)
    \/ \E flag \in BOOLEAN : OnLine(flag)

SpecSocket == Init /\ [][NextSocket]_vars

----------------------------------------------------------------------------
(* Properties *)

Keys(source) == {source[i].name : i \in 1..Len(source)}

ValidNames(buf) ==
    {buf.configs[i].contextName : i \in {j \in 1..Len(buf.configs) : buf.configs[j].valid}}

Items == Range(items(registry, units))

Pass == lastOp.op = "end" /\ lastOp.passed

CallsOf(kinds) == {i \in 1..Len(lastOp.calls) : lastOp.calls[i].call \in kinds}

\* C1: a read whose canceller was called makes no call and leaves the unit's
\* map as it was when its "end" arrives, and a read that is handed to
\* computeDiff is the one the unit's latest added/changed event started.
C1_CancelledReadDiscarded ==
    lastOp.op = "end" =>
        /\ lastOp.cancelled =>
              /\ ~lastOp.passed
              /\ lastOp.calls = <<>>
              /\ units[lastOp.unit].source = lastOp.before
        /\ lastOp.passed => units[lastOp.unit].stopPrevious = lastOp.read

\* a cancelled read ends after the read that superseded it was applied
C1_Witness ==
    /\ lastOp.op = "end"
    /\ lastOp.cancelled
    /\ LET u == lastOp.unit
           n == units[u].stopPrevious
       IN  /\ n > lastOp.read
           /\ reads[n].state # "reading"
           /\ units[u].source # <<>>

\* C2: after a pass over a parseable buffer the keys of the unit's map are
\* exactly the names of the buffer that validate and have a constructed
\* connection: the record they had before the pass, or one built in the pass.
C2_KeysAreValidConstructed ==
    Pass /\ ~lastOp.buf.malformed =>
        LET after == units[lastOp.unit].source
        IN  /\ Keys(after) =
                  {n \in ValidNames(lastOp.buf) :
                        n \in Keys(lastOp.before) \/ n \in lastOp.ok}
            /\ Cardinality(Keys(after)) = Len(after)

\* the name of a record fails validation, the other name fails construction
C2_Witness ==
    /\ Pass /\ ~lastOp.buf.malformed
    /\ \E i \in 1..Len(lastOp.buf.configs) :
          /\ ~lastOp.buf.configs[i].valid
          /\ lastOp.buf.configs[i].contextName \in Keys(lastOp.before)
    /\ ValidNames(lastOp.buf) \ Keys(units[lastOp.unit].source) # {}

\* C3: a pass that fails to parse empties the map and has called disconnect()
\* on every record the map held.
C3_ParseFailureDisconnects ==
    Pass /\ lastOp.buf.malformed =>
        /\ units[lastOp.unit].source = <<>>
        /\ \A i \in 1..Len(lastOp.before) :
              disconnects[lastOp.before[i].cluster] >= 1

\* C4: when the manager drops a unit (watch-list delete, stopSync), every
\* record of the unit's map has received disconnect().
C4_TeardownDisconnects ==
    lastOp.op = "drop" =>
        \A u \in lastOp.dropped : \A i \in 1..Len(units[u].source) :
            disconnects[units[u].source[i].cluster] >= 1

\* C5: an added/changed event starts a read only on a unit the manager
\* still holds.
C5_NoEventAfterTeardown ==
    lastOp.op = "event" /\ lastOp.kind \in {"add", "change"} => IsActive(lastOp.unit)

\* C6: a read that was in flight when its unit was dropped is discarded when
\* it ends: the map stays as it was and no Cluster is constructed, updated or
\* disconnected.
C6_OrphanedReadDiscarded ==
    lastOp.op = "end" /\ lastOp.orphaned =>
        /\ units[lastOp.unit].source = lastOp.before
        /\ CallsOf({"construct", "updateModel", "disconnect"}) = {}

\* C7: a record whose name is not among the pass's valid contexts receives
\* disconnect() once, before its delete, and after the pass it is neither in
\* the map nor (its entity) in the registry's items.
C7_RemovedDisconnectedOnce ==
    Pass /\ ~lastOp.buf.malformed =>
        \A i \in 1..Len(lastOp.before) :
            LET rec == lastOp.before[i]
                u   == lastOp.unit
            IN  rec.name \notin ValidNames(lastOp.buf) =>
                    /\ CountCalls(lastOp.calls, "disconnect", rec.cluster) = 1
                    /\ disconnects[rec.cluster] = 1
                    /\ \E j, k \in 1..Len(lastOp.calls) :
                          /\ j < k
                          /\ lastOp.calls[j] = Call("disconnect", rec.name, rec.cluster)
                          /\ lastOp.calls[k] = Call("delete", rec.name, rec.cluster)
                    /\ rec.name \notin Keys(units[u].source)
                    /\ Entity(units[u].path, rec) \notin Items

\* a registered unit loses one record and keeps another
C7_Witness ==
    /\ Pass /\ ~lastOp.buf.malformed
    /\ Keys(lastOp.before) \ ValidNames(lastOp.buf) # {}
    /\ Keys(lastOp.before) \cap ValidNames(lastOp.buf) # {}
    /\ Items # {}

\* C8 as stated: a pass over the content of the previous pass keeps every
\* record and calls neither disconnect() nor the constructor.
C8_RepeatMakesNoCall ==
    Pass /\ lastOp.repeat =>
        /\ \A i \in 1..Len(lastOp.before) :
              lastOp.before[i] \in Range(units[lastOp.unit].source)
        /\ CallsOf({"disconnect", "construct"}) = {}

\* C8 amended: a pass over the content of the previous pass keeps every
\* record in its place, calls no disconnect(), and calls the constructor only
\* for valid names that have no record.
C8_RepeatKeepsRecords ==
    Pass /\ lastOp.repeat =>
        LET after == units[lastOp.unit].source
        IN  /\ Len(after) >= Len(lastOp.before)
            /\ \A i \in 1..Len(lastOp.before) : after[i] = lastOp.before[i]
            /\ CallsOf({"disconnect"}) = {}
            /\ \A i \in CallsOf({"construct"}) :
                  /\ lastOp.calls[i].name \notin Keys(lastOp.before)
                  /\ lastOp.calls[i].name \in ValidNames(lastOp.buf)

\* the repeated content has a name with a record and a name whose
\* construction is tried again
C8_Witness ==
    /\ Pass /\ lastOp.repeat
    /\ lastOp.before # <<>>
    /\ CallsOf({"construct"}) # {}

\* C9: the items hold no entity of a unit the manager dropped; right after
\* removeSource(id) the id is not registered and the unit that was registered
\* under it contributes nothing; right after a teardown the unit's source name
\* is not registered.
C9_NoEntityOfUnregistered ==
    /\ \A u \in 1..Len(units) : ~IsActive(u) =>
          \A i \in 1..Len(units[u].source) :
              Entity(units[u].path, units[u].source[i]) \notin Items
    /\ lastOp.op = "remove" =>
          /\ lastOp.id \notin RegIds(registry)
          /\ lastOp.unit # 0 =>
                \A i \in 1..Len(units[lastOp.unit].source) :
                    Entity(units[lastOp.unit].path, units[lastOp.unit].source[i])
                        \notin Items
    /\ lastOp.op = "drop" =>
          \A u \in lastOp.dropped : SyncName(units[u].path) \notin RegIds(registry)

\* a unit with a record is dropped while another source still contributes
C9_Witness ==
    /\ lastOp.op = "drop"
    /\ \E u \in lastOp.dropped : units[u].source # <<>>
    /\ Items # {}

\* C10 as stated: addSource(id, ..) followed by removeSource(id) gives the
\* items of before the addSource, for every id.
C10_AddRemoveRestores ==
    lastOp.op = "remove" /\ lastOp.afterAdd =>
        items(registry, units) = lastOp.itemsBefore

\* C10 amended: the same, for an id that was not registered before.
C10_AddRemoveRestoresFresh ==
    lastOp.op = "remove" /\ lastOp.afterAdd /\ ~lastOp.hadId =>
        items(registry, units) = lastOp.itemsBefore

\* a fresh id is added and removed next to a unit that contributes an entity
C10_Witness ==
    /\ lastOp.op = "remove" /\ lastOp.afterAdd /\ ~lastOp.hadId
    /\ \E i \in 1..Len(lastOp.itemsBefore) : lastOp.itemsBefore[i].kind = "cluster"

\* the number of times e occurs in s
Count(s, e) == Cardinality({i \in 1..Len(s) : s[i] = e})

\* what a registered source holds now: source.get() of lines 19-21
Collection(src) ==
    IF src.kind = "computed"
    THEN [i \in 1..Len(units[src.unit].source) |->
             Entity(units[src.unit].path, units[src.unit].source[i])]
    ELSE src.arr

RECURSIVE SumOver(_, _)
SumOver(n, f) == IF n = 0 THEN 0 ELSE f[n] + SumOver(n - 1, f)

\* C11: the items hold every entity as many times as the collections of the
\* registered sources hold it together, nothing else, and a unit that is
\* registered contributes the records its last pass left in its map.
C11_ItemsAreConcatenation ==
    LET all  == items(registry, units)
        n    == Len(registry)
        held == UNION {Range(Collection(registry[i].src)) : i \in 1..n}
    IN  /\ Len(all) = SumOver(n, [i \in 1..n |-> Len(Collection(registry[i].src))])
        /\ \A e \in held \cup Range(all) :
              Count(all, e) =
                 SumOver(n, [i \in 1..n |-> Count(Collection(registry[i].src), e)])
        /\ Pass /\ RegUnit(registry, SyncName(units[lastOp.unit].path)) = lastOp.unit =>
              LET after == ApplyCalls(lastOp.before, lastOp.calls)
              IN  \A i \in 1..Len(after) :
                     Count(all, Entity(units[lastOp.unit].path, after[i])) = 1

\* a registered unit gets a record in a pass while two array sources hold
\* the same entity
C11_Witness ==
    /\ Pass
    /\ RegUnit(registry, SyncName(units[lastOp.unit].path)) = lastOp.unit
    /\ units[lastOp.unit].source # <<>>
    /\ \E e \in Range(items(registry, units)) : Count(items(registry, units), e) = 2

\* C12: a record whose name is among the pass's valid contexts is after the
\* pass the record it was, at its place among the kept records; it got one
\* updateModel and no disconnect, construct or set.  A name that enters the
\* map in the pass has a Cluster built in this pass.
C12_KeptRecordUpdatedInPlace ==
    Pass /\ ~lastOp.buf.malformed =>
        LET before == lastOp.before
            after  == units[lastOp.unit].source
            kept   == SelectSeq(before, LAMBDA e : e.name \in ValidNames(lastOp.buf))
            made   == Constructed(lastOp.calls)
        IN  /\ Len(after) >= Len(kept)
            /\ \A i \in 1..Len(kept) :
                  /\ after[i] = kept[i]
                  /\ CountCalls(lastOp.calls, "updateModel", kept[i].cluster) = 1
                  /\ \A j \in CallsOf({"disconnect", "construct", "set", "delete"}) :
                        /\ lastOp.calls[j].name # kept[i].name
                        /\ lastOp.calls[j].cluster # kept[i].cluster
            /\ \A i \in (Len(kept) + 1)..Len(after) :
                  /\ after[i].name \notin Keys(before)
                  /\ after[i].cluster > clusters - made
                  /\ after[i].cluster <= clusters
                  /\ disconnects[after[i].cluster] = 0
                  /\ \A k \in 1..Len(after) :
                        after[k].cluster = after[i].cluster => k = i

\* scenario B: the file is rewritten with a second context
C12_Witness ==
    /\ Pass /\ ~lastOp.buf.malformed
    /\ Len(lastOp.before) = 1
    /\ Len(units[lastOp.unit].source) = 2
    /\ units[lastOp.unit].source[1] = lastOp.before[1]
    /\ CallsOf({"updateModel"}) # {}

\* what the registry's items are when unit u's map is source
ItemsWith(u, source) ==
    items(registry, [units EXCEPT ![u].source = source])

\* C13: the observers of a unit's map and of the items run on no map that
\* holds only a part of a pass: every map they are run on is the map the
\* whole pass leaves, and a pass that changes the map runs them once.
C13_PassIsAtomic ==
    Pass =>
        LET u == lastOp.unit
        IN  /\ \A i \in 1..Len(lastOp.notified) :
                  /\ lastOp.notified[i] = units[u].source
                  /\ lastOp.notified[i] = ApplyCalls(lastOp.before, lastOp.calls)
                  /\ ItemsWith(u, lastOp.notified[i]) = items(registry, units)
            /\ Len(lastOp.notified) <= 1
            /\ units[u].source # lastOp.before => Len(lastOp.notified) = 1

\* a pass of a registered unit deletes one record and inserts another
C13_Witness ==
    /\ Pass
    /\ CallsOf({"delete"}) # {}
    /\ CallsOf({"set"}) # {}
    /\ Len(Changes(lastOp.before, lastOp.calls)) >= 2
    /\ RegUnit(registry, SyncName(units[lastOp.unit].path)) = lastOp.unit

\* the kubeconfig sync but the record of the last handler
state == <<files, syncing, listening, sources, units, reads, registry,
           disconnects, clusters>>

\* C14: a startSync while the manager is syncing changes nothing: no unit,
\* no registered source, no subscription is added; files never has more than
\* one observer of the manager, so that a change of the watch-list is handled
\* once, and an added path gets one unit.
C14_StartSyncWhileSyncingIsNoOp ==
    /\ [](listening.observers <= 1 /\ (syncing => listening.observers = 1))
    /\ [][lastOp'.op = "start" /\ lastOp'.repeat => UNCHANGED state]_vars
    /\ [][lastOp'.op = "watch" /\ ~lastOp'.repeat /\ syncing =>
            /\ Len(units') = Len(units) + 1
            /\ Len(registry') = Len(registry) + 1]_vars

\* startSync is called while the manager syncs a file
C14_Witness ==
    /\ lastOp.op = "start" /\ lastOp.repeat
    /\ syncing
    /\ units # <<>>
    /\ registry # <<>>

\* C15: when the manager is not syncing (after stopSync, or before the first
\* startSync) it holds no unit, none of its sources is registered and nothing
\* observes the watch-list: no step but startSync creates or drops a unit or
\* changes the registry, and a stopSync changes nothing.
C15_StopSyncStopsAll ==
    /\ [](~syncing =>
            /\ \A p \in Paths : sources[p] = 0
            /\ \A i \in 1..Len(registry) : registry[i].src.kind # "computed"
            /\ listening.observers = 0)
    /\ [][~syncing /\ ~syncing' =>
            /\ sources' = sources
            /\ Len(units') = Len(units)
            /\ registry' = registry]_vars
    /\ [][~syncing /\ StopSync => UNCHANGED state]_vars

\* after a stopSync that dropped a unit a path is added to the watch-list
C15_Witness ==
    /\ ~syncing
    /\ units # <<>>
    /\ lastOp.op = "watch" /\ ~lastOp.repeat
    /\ \A p \in Paths : sources[p] = 0

\* the latest read of unit u is cancelled, or the unit never started one
LatestCancelled(u) ==
    units[u].stopPrevious = 0 \/ reads[units[u].stopPrevious].closed

\* C16: a removed event leaves every read of its unit cancelled, starts no
\* read, runs no pass and changes no map; as long as the unit's latest read is
\* cancelled no step changes the unit's map: the records stay until a later
\* added/changed event starts a read.
C16_UnlinkCancelsAndKeepsMap ==
    /\ [](lastOp.op = "event" /\ lastOp.kind = "unlink" =>
            /\ LatestCancelled(lastOp.unit)
            /\ \A r \in 1..Len(reads) :
                  reads[r].unit = lastOp.unit /\ reads[r].state = "reading"
                      => reads[r].closed)
    /\ [][lastOp'.op = "event" /\ lastOp'.kind = "unlink" =>
            /\ Len(reads') = Len(reads)
            /\ \A u \in 1..Len(units) : units'[u].source = units[u].source
            /\ clusters' = clusters
            /\ disconnects' = disconnects
            /\ registry' = registry]_vars
    /\ [][\A u \in 1..Len(units) :
            LatestCancelled(u) => units'[u].source = units[u].source]_vars

\* the read a removed event cancelled ends, and the records are still there
C16_Witness ==
    /\ lastOp.op = "end" /\ lastOp.cancelled
    /\ units[lastOp.unit].stopPrevious = lastOp.read
    /\ ~units[lastOp.unit].exists
    /\ units[lastOp.unit].source # <<>>

\* the reads of a path that are in flight and not cancelled
Pending(p) ==
    {r \in 1..Len(reads) :
        /\ reads[r].state = "reading"
        /\ ~reads[r].closed
        /\ units[reads[r].unit].path = p}

\* C17: a path never has two reads in flight that are not cancelled.
C17_OnePendingReadPerPath ==
    \A p \in Paths : Cardinality(Pending(p)) <= 1

\* read r is in flight and not cancelled
InFlight(r) ==
    r \in 1..Len(reads) /\ reads[r].state = "reading" /\ ~reads[r].closed

\* read r was superseded or its unit dropped while it was in flight
Overtaken(r) ==
    /\ r \in 1..Len(reads)
    /\ reads[r].state = "reading"
    /\ reads[r].closed \/ reads[r].orphaned

\* the handler that ran last applied a pass with the buffer of read r
AppliedNow(r) == Pass /\ lastOp.read = r

\* C18: a read that is in flight and not cancelled is applied in a pass,
\* unless a later event of its unit or a teardown overtakes it; no read ends
\* twice; and a pass over a parseable buffer leaves in the map every valid
\* name whose Cluster can be built, whatever the pass before it read.
C18_ReadLeadsToOnePass ==
    /\ \A r \in 1..MaxReads : InFlight(r) ~> (AppliedNow(r) \/ Overtaken(r))
    /\ [][\A r \in 1..Len(reads) :
            reads[r].state # "reading" => reads'[r].state # "reading"]_vars
    /\ [](Pass /\ ~lastOp.buf.malformed =>
            ValidNames(lastOp.buf) \cap lastOp.ok
                \subseteq Keys(units[lastOp.unit].source))

\* a valid write is applied after a malformed one emptied the map
C18_Witness ==
    /\ Pass /\ lastOp.afterMalformed
    /\ ~lastOp.buf.malformed
    /\ lastOp.before = <<>>
    /\ units[lastOp.unit].source # <<>>
    /\ ~lastOp.cancelled

\* C19: while the manager is syncing, the paths of its sources map are the
\* paths of the watch-list, each with a unit of its own for that path, and
\* the registry holds lens:kube-sync:<path>, as the derived source of that
\* unit, for these paths and no others; addSyncingFile of a path that is in
\* the watch-list changes nothing.
C19_UnitsFollowWatchList ==
    /\ [](syncing =>
            /\ {p \in Paths : sources[p] # 0} = Range(files)
            /\ \A p \in Range(files) :
                  /\ sources[p] \in 1..Len(units)
                  /\ units[sources[p]].path = p
                  /\ RegUnit(registry, SyncName(p)) = sources[p]
            /\ \A p \in Paths : SyncName(p) \in RegIds(registry) <=> p \in Range(files)
            /\ Len(registry) = Len(files))
    /\ [][lastOp'.op = "watch" /\ lastOp'.repeat => UNCHANGED state]_vars

\* addSyncingFile of a path that has a unit, next to another synced path
C19_Witness ==
    /\ syncing
    /\ lastOp.op = "watch" /\ lastOp.repeat
    /\ Len(files) = 2
    /\ \A p \in Paths : sources[p] # 0

\* the commands the users passed to send() since the last destroy()
Commands == (sent.destroyed + 1)..sent.count

Sorted(s) == \A i, j \in 1..Len(s) : i < j => s[i] < s[j]

\* C20: every command passed to send() since the last destroy() was written
\* to a socket or is in pendingCommands, and the queued commands are in the
\* order of their send() calls.
C20_NoCommandLost ==
    /\ \A c \in Commands : c \in Range(written) \/ c \in Range(pendingCommands)
    /\ Sorted(pendingCommands)

\* C21: after a destroy() that closed the socket, and until a user calls
\* connect(), the api has no socket and its readyState is PENDING.
C21_DestroyedStaysPending ==
    sent.afterDestroy => socket = 0 /\ readyState = "pending"

====
